---- MODULE Spec2Model ----
(***************************************************************************)
(* Model of the test-time adaptation engine `Ours` (src/methods/ours.py)   *)
(* and of the helpers of src/classification/methods/rmt.py it shares.      *)
(*                                                                         *)
(* Conventions.                                                            *)
(*  - Entropies are held in tenths: 4 stands for 0.4, 9 for 0.9.           *)
(*  - A model's parameters are one integer per parameter group; one        *)
(*    optimizer step on a group that holds a gradient moves it by          *)
(*    StepSize (the gradient itself is opaque).  Momenta are multiples of  *)
(*    1/MomentumDen.  Parameter values are the representable numbers: the  *)
(*    result of every arithmetic operation is rounded to the nearest one,  *)
(*    ties to even, as floating-point arithmetic does.                     *)
(*  - A gradient buffer is the set of losses whose backward pass has       *)
(*    accumulated into it since it was last zeroed.                        *)
(*  - An input sample x is the tuple of what the three networks make of    *)
(*    it: T1's entropy, T2's entropy and T1's argmax label.                *)
(***************************************************************************)
EXTENDS Integers, Sequences, FiniteSets

VARIABLES
    c,                 \* self.c, the step counter
    calls,             \* number of forward_and_adapt calls made so far
    priority_queues,   \* self.priority_queues: class -> queue of <<entropy, feature>>
    params,            \* parameter value of every parameter group
    grads,             \* gradient buffer of every parameter group
    opt_state,         \* per optimizer: its state, the number of updates applied
    stepped,           \* per optimizer: step() calls in the last adapt call
    contrast_mode,     \* cfg.CONTRAST.MODE
    mixed_precision,   \* self.mixed_precision and self.device == "cuda"
    m_teacher_momentum,\* cfg.M_TEACHER.MOMENTUM, in units of 1/MomentumDen
    prototypes,        \* the matrix the last prototype_updates returned
    rows_read,         \* prototype rows the last T2 loss terms indexed
    evictions,         \* evictions of the last prototype_updates call
    t2_step_grads,     \* gradient buffer consumed by the last T2 optimizer step
    last_op,           \* the last engine operation and how it ended
    outputs,           \* what the last operation returned, << >> if nothing
    phases,            \* the phases of the last forward_and_adapt call, in order
    last_round,        \* value of c in the last call that ran the eviction round
    ckpt_files,        \* RMT: the warm-up checkpoint files, by path
    ctor,              \* RMT: the last construction, its arguments and what it did
    src_loader_iter,   \* RMT: self.src_loader_iter and the last batch it gave
    entropy_t1,        \* confidence filter: T1 entropy vector
    entropy_ema_t2,    \* confidence filter: T2 entropy vector
    threshold,         \* confidence filter: entropy threshold
    filter_ids         \* confidence filter: the four index sets returned

vars == <<c, calls, priority_queues, params, grads, opt_state, stepped, contrast_mode,
          mixed_precision, m_teacher_momentum, prototypes, rows_read,
          evictions, t2_step_grads, last_op, outputs, phases, last_round,
          ckpt_files, ctor, src_loader_iter,
          entropy_t1, entropy_ema_t2, threshold, filter_ids>>

engine_vars == <<c, calls, priority_queues, params, grads, opt_state, stepped,
                 contrast_mode,
                 mixed_precision, m_teacher_momentum, prototypes, rows_read,
                 evictions, t2_step_grads, last_op, outputs, phases,
                 last_round>>

filter_vars == <<entropy_t1, entropy_ema_t2, threshold, filter_ids>>

rmt_vars == <<ckpt_files, ctor, src_loader_iter>>

(***************************************************************************)
(* Bounds of the model.                                                    *)
(***************************************************************************)
NumClasses == 2
Overfill == 1
MaxSteps == 3
MaxVec == 2
MomentumHalf == 1
MaxValue == 3
MaxWarmup == 3
MaxLoader == 2
MaxLongSteps == 11

(***************************************************************************)
(* Program constants.                                                      *)
(***************************************************************************)
QueueBound == 10
max_size_off_by_one == QueueBound + 1
max_size == 10
entropy_threshold == 4
EvictPeriod == 5
MomentumDen == 2 * MomentumHalf
StepSize == MomentumDen

Classes == 0 .. (NumClasses - 1)
EntropyValues == {1, 2, 5, 9}

Range(s) == {s[i] : i \in DOMAIN s}

(***************************************************************************)
(* PrototypeStore: init_pqs, update_pqs, pop_min_from_pqs and              *)
(* compute_prototypes of utils.misc.  A queue is the list of its entries   *)
(* <<entropy, feature>>, most confident (lowest entropy) first.            *)
(***************************************************************************)
init_pqs(num_classes, size) == [k \in 0 .. (num_classes - 1) |-> << >>]

EntropyOf(entry) == entry[1]
FeatureOf(entry) == entry[2]

\* position at which an entry of entropy e is put: behind every entry that is
\* at least as confident
PushIndex(q, e) == Cardinality({i \in DOMAIN q : EntropyOf(q[i]) <= e}) + 1

push(q, entry) ==
    LET k == PushIndex(q, EntropyOf(entry))
    IN  SubSeq(q, 1, k - 1) \o <<entry>> \o SubSeq(q, k, Len(q))

\* highest and lowest entropy held by a queue, NoEntropy for an empty one
NoEntropy == 0 - 1

Entropies(q) == {EntropyOf(q[j]) : j \in DOMAIN q}

WorstEntropy(q) ==
    IF Len(q) = 0 THEN NoEntropy
    ELSE CHOOSE e \in Entropies(q) : \A d \in Entropies(q) : d <= e

BestEntropy(q) ==
    IF Len(q) = 0 THEN NoEntropy
    ELSE CHOOSE e \in Entropies(q) : \A d \in Entropies(q) : d >= e

\* index of the entry with the worst confidence (highest entropy), found by a
\* scan of the queue
WorstIndex(q) == CHOOSE i \in DOMAIN q : EntropyOf(q[i]) = WorstEntropy(q)

BestIndex(q) == CHOOSE i \in DOMAIN q : EntropyOf(q[i]) = BestEntropy(q)

RemoveAt(q, i) == SubSeq(q, 1, i - 1) \o SubSeq(q, i + 1, Len(q))

\* the record kept of one eviction: the entropy of the entry removed, the
\* highest entropy left in that queue right after it, and whether the queue
\* was over its size (a capacity eviction) or not (the periodic round)
Eviction(q, i, size) ==
    [entropy |-> EntropyOf(q[i]),
     worst_left |-> WorstEntropy(RemoveAt(q, i)),
     over |-> Len(q) > size]

EvictIndexMostConfident(q) == BestIndex(q)
EvictIndex(q) == WorstIndex(q)

OverCapacity(q, size) == Len(q) > size

\* one sample of update_pqs: push, then evict while the queue exceeds its size
PushSample(st, size, feature, entropy, label) ==
    LET q1 == push(st.pqs[label], <<entropy, feature>>)
        i  == EvictIndex(q1)
    IN  IF OverCapacity(q1, size)
        THEN [pqs |-> [st.pqs EXCEPT ![label] = RemoveAt(q1, i)],
              ev  |-> st.ev \cup {Eviction(q1, i, size)}]
        ELSE [pqs |-> [st.pqs EXCEPT ![label] = q1], ev |-> st.ev]

RECURSIVE UpdateFrom(_, _, _, _, _, _)
UpdateFrom(st, size, features, entropies, labels, i) ==
    IF i > Len(features) THEN st
    ELSE UpdateFrom(PushSample(st, size, features[i], entropies[i], labels[i]),
                    size, features, entropies, labels, i + 1)

update_pqs(pqs, size, features, entropies, labels) ==
    UpdateFrom([pqs |-> pqs, ev |-> {}], size, features, entropies, labels, 1)

\* evict_round: one entry leaves every class queue that holds one
pop_min_from_pqs(st, size, num_classes) ==
    [pqs |-> [k \in DOMAIN st.pqs |->
                 IF k < num_classes /\ Len(st.pqs[k]) > 0
                 THEN RemoveAt(st.pqs[k], EvictIndex(st.pqs[k]))
                 ELSE st.pqs[k]],
     ev  |-> st.ev \cup {Eviction(st.pqs[k], EvictIndex(st.pqs[k]), size) :
                            k \in {j \in DOMAIN st.pqs :
                                      j < num_classes /\ Len(st.pqs[j]) > 0}}]

RECURSIVE SumFeatures(_, _)
SumFeatures(q, i) ==
    IF i > Len(q) THEN 0 ELSE FeatureOf(q[i]) + SumFeatures(q, i + 1)

\* a prototype row is a vector; the model's feature dimension is 1
Undefined == << >>
ZeroRow == <<0>>

EmptyRowUndefined(q) == Undefined
EmptyRow(q) == ZeroRow

\* mean-pool every class queue; an empty queue gives the zero row
compute_prototypes(pqs, num_classes) ==
    [k \in 0 .. (num_classes - 1) |->
        IF Len(pqs[k]) = 0 THEN EmptyRow(pqs[k])
        ELSE <<SumFeatures(pqs[k], 1) \div Len(pqs[k])>>]

(***************************************************************************)
(* ConfidenceFilter: confidence_condition of utils.misc.  Index sets are   *)
(* 0-based, as tensor indices are.                                         *)
(***************************************************************************)
Confident(e, tau) == e < tau

Indices(e1) == {i - 1 : i \in DOMAIN e1}

Both(e1, e2, tau) ==
    {i \in Indices(e1) : Confident(e1[i + 1], tau) /\ Confident(e2[i + 1], tau)}
OnlyT2Overlapping(e1, e2, tau) ==
    {i \in Indices(e1) : Confident(e2[i + 1], tau)}
OnlyT2(e1, e2, tau) ==
    {i \in Indices(e1) : ~Confident(e1[i + 1], tau) /\ Confident(e2[i + 1], tau)}
OnlyT1(e1, e2, tau) ==
    {i \in Indices(e1) : Confident(e1[i + 1], tau) /\ ~Confident(e2[i + 1], tau)}
Neither(e1, e2, tau) ==
    {i \in Indices(e1) : ~Confident(e1[i + 1], tau) /\ ~Confident(e2[i + 1], tau)}

\* returns, in this order: both confident, only T2 confident, only T1
\* confident, neither
confidence_condition_swapped(e1, e2, tau) ==
    <<Both(e1, e2, tau), OnlyT1(e1, e2, tau), OnlyT2(e1, e2, tau),
      Neither(e1, e2, tau)>>
confidence_condition(e1, e2, tau) ==
    <<Both(e1, e2, tau), OnlyT2(e1, e2, tau), OnlyT1(e1, e2, tau),
      Neither(e1, e2, tau)>>

\* tensor[ids]: the rows of a tensor at an index set, in index order
RECURSIVE Select(_, _, _)
Select(t, ids, i) ==
    IF i > Len(t) THEN << >>
    ELSE (IF (i - 1) \in ids THEN <<t[i]>> ELSE << >>) \o Select(t, ids, i + 1)

(***************************************************************************)
(* EnsembleController: the models, their parameter groups and optimizers   *)
(* as Ours.__init__ sets them up.                                          *)
(***************************************************************************)
Groups == {"model", "model_s", "model_t1", "backbone_t2", "classifier_t2",
           "projector"}
Optimizers == {"optimizer", "optimizer_bn", "optimizer_t2",
               "optimizer_backbone_t2", "optimizer_classifier_t2"}
Losses == {"loss_stu", "loss_t2"}

\* the kinds of layer a parameter group is made of
LayerKinds(g) ==
    IF g \in {"classifier_t2", "projector"} THEN {"Linear"}
    ELSE {"BatchNorm2d", "Linear"}

\* configure_model(model, bn): which layers are left trainable
configure_model(kind, bn) ==
    IF kind = "BatchNorm2d" THEN bn \in {"None", "True"}
    ELSE bn # "True"

\* requires_grad of a group after construction: T1 is only detached, T2 is
\* configured with bn=True, S with bn=None, the projector is a fresh module
requires_grad(g) ==
    CASE g = "model_t1" -> FALSE
      [] g \in {"backbone_t2", "classifier_t2"} ->
            \E kind \in LayerKinds(g) : configure_model(kind, "True")
      [] g \in {"model_s", "model"} ->
            \E kind \in LayerKinds(g) : configure_model(kind, "None")
      [] OTHER -> TRUE

\* the parameter groups each optimizer was set up with
params_bn == {"model_s"}

OptimizerParams(o) ==
    CASE o = "optimizer" -> {"model"}
      [] o = "optimizer_bn" -> params_bn
      [] o = "optimizer_t2" -> {"backbone_t2", "projector"}
      [] o = "optimizer_backbone_t2" -> {"backbone_t2"}
      [] o = "optimizer_classifier_t2" -> {"classifier_t2"}

\* the parameter groups a loss is computed from
LossInputs(loss) ==
    IF loss = "loss_stu"
    THEN {"model_s", "model_t1", "backbone_t2", "classifier_t2"}
    ELSE {"backbone_t2", "projector"}

\* loss.backward(): accumulates into every trainable group the loss depends on
backward(g, loss) ==
    [k \in Groups |->
        IF k \in LossInputs(loss) /\ requires_grad(k)
        THEN g[k] \cup {loss} ELSE g[k]]

\* optimizer.step(): moves the groups of the optimizer that hold a gradient
step(p, g, o) ==
    [k \in Groups |->
        IF k \in OptimizerParams(o) /\ g[k] # {} THEN p[k] + StepSize ELSE p[k]]

\* the state an optimizer keeps (its update count and moment buffers) moves
\* only when the step finds a gradient on one of its groups
step_state(st, g, o) ==
    [k \in Optimizers |->
        IF k = o /\ (\E grp \in OptimizerParams(o) : g[grp] # {})
        THEN st[k] + 1 ELSE st[k]]

NoSteps == [o \in Optimizers |-> 0]
Called(n, o) == [n EXCEPT ![o] = @ + 1]

\* optimizer.zero_grad(): clears the buffers of the optimizer's own groups
zero_grad(g, o) ==
    [k \in Groups |-> IF k \in OptimizerParams(o) THEN {} ELSE g[k]]

\* n/d rounded to the nearest representable value, ties to even
Round(n, d) ==
    LET q == n \div d
        r == n % d
    IN  IF 2 * r < d THEN q
        ELSE IF 2 * r > d THEN q + 1
        ELSE IF q % 2 = 0 THEN q ELSE q + 1

\* the merge with the two weights exchanged
update_ema_variables_swapped(ema_param, param, alpha_teacher) ==
    Round((MomentumDen - alpha_teacher) * ema_param, MomentumDen)
        + Round(alpha_teacher * param, MomentumDen)

\* update_ema_variables of rmt.py: alpha*ema + (1 - alpha)*param, with alpha
\* given in units of 1/MomentumDen; each product is rounded, the sum of two
\* representable values is exact
update_ema_variables(ema_param, param, alpha_teacher) ==
    Round(alpha_teacher * ema_param, MomentumDen)
        + Round((MomentumDen - alpha_teacher) * param, MomentumDen)

\* ema_update_model of utils.misc, called with update_all=True
ema_update_model(model_to_update, model_to_merge, momentum) ==
    update_ema_variables(model_to_update, model_to_merge, momentum)

\* the models and optimizers the episodic snapshot tracks: the list the base
\* class registers when Ours.__init__ calls super().__init__, before S, T1,
\* T2 and the projector exist; Ours never registers them afterwards
\* the model forward_sliding_window adds T1's logits to: self.model, the model
\* the engine was constructed with (the student is its copy self.model_s)
SlidingModelStudent == "model_s"
SlidingModel == "model"

models_with_teacher == {"model", "model_t1"}
models == {"model"}
optimizers == {"optimizer"}

InitParams == [k \in Groups |-> 0]
InitOptState == [o \in Optimizers |-> 0]

\* copy_model_and_optimizer, taken at construction
model_states == [k \in models |-> InitParams[k]]
optimizer_states == [o \in optimizers |-> InitOptState[o]]

(***************************************************************************)
(* Inputs.  A sample is what the networks make of one image: T1's entropy, *)
(* T2's entropy and T1's argmax label; T1's backbone feature of a sample   *)
(* of label k is the vector k + 1.  The samples are every sample the       *)
(* filter selects (T1 not confident, T2 confident), at two entropy levels  *)
(* and of every class, and one sample of each kind it does not select.     *)
(* A batch is one sample, an unselected sample followed by a selected one, *)
(* or max_size + Overfill copies of a selected sample (a batch that puts   *)
(* more samples of one class into a queue than the queue can hold).        *)
(***************************************************************************)
SelectedSamples == [e1 : {5, 9}, e2 : {2}, label : Classes]

UnselectedSamples ==
    {[e1 |-> 1, e2 |-> 2, label |-> 0],
     [e1 |-> 1, e2 |-> 9, label |-> NumClasses - 1],
     [e1 |-> 9, e2 |-> 9, label |-> 0]}

Samples == SelectedSamples \cup UnselectedSamples

RECURSIVE SeqsUpTo(_, _)
SeqsUpTo(S, n) ==
    IF n = 0 THEN {<< >>}
    ELSE LET shorter == SeqsUpTo(S, n - 1)
         IN  shorter \cup {Append(t, x) : t \in {u \in shorter : Len(u) = n - 1},
                                          x \in S}

Batches ==
    {<<x>> : x \in Samples}
        \cup {<<[e1 |-> 1, e2 |-> 2, label |-> 0], y>> : y \in SelectedSamples}
        \cup {[i \in 1 .. (max_size + Overfill) |-> x] : x \in SelectedSamples}

backbone_t1(x) == [i \in DOMAIN x |-> x[i].label + 1]
EntropyT1(x) == [i \in DOMAIN x |-> x[i].e1]
EntropyT2(x) == [i \in DOMAIN x |-> x[i].e2]
LabelsT1(x) == [i \in DOMAIN x |-> x[i].label]

Momenta == 0 .. MomentumDen

\* the configurations the engine is constructed with
Configs ==
    [mode : {"all"}, mixed : {FALSE}, momentum : {0, MomentumHalf, MomentumDen}]
        \cup {[mode |-> "one", mixed |-> TRUE, momentum |-> 1],
              [mode |-> "bad", mixed |-> FALSE, momentum |-> 1]}

(***************************************************************************)
(* RMT.__init__ and RMT.warmup of rmt.py: the warm-up checkpoint and the   *)
(* source-data iterator.  A checkpoint name such as best_real_2020.pth is  *)
(* the list of its parts between underscores; a source loader is the list  *)
(* of its batches 1 .. src_len, and an iterator the number of batches it   *)
(* has given in the current pass.                                          *)
(***************************************************************************)
Datasets == {"cifar10_c", "domainnet126"}
Archs == {"resnet26", "vit"}
CkptNames == {<<"best", "real", "2020">>, <<"best", "clipart", "2020">>}

RmtArgs ==
    [dataset_name : Datasets, arch_name : Archs, ckpt_path : CkptNames,
     warmup_steps : 0 .. MaxWarmup, src_len : 0 .. MaxLoader]

\* the checkpoint path with the part of the name left out
warmup_ckpt_path_dataset_only(args) == <<"ckpt_warmup", args.dataset_name>>

\* lines 106-110: the path of the warm-up checkpoint
warmup_ckpt_path(args) ==
    IF args.dataset_name = "domainnet126"
    THEN <<"ckpt_warmup", args.dataset_name, args.ckpt_path[2]>>
    ELSE <<"ckpt_warmup", args.dataset_name>>

CkptPaths == {warmup_ckpt_path(a) : a \in RmtArgs}

NoFile == [exists |-> FALSE, writer |-> << >>, writes |-> 0]

\* iter(self.src_loader)
iter(len) == [len |-> len, pos |-> 0, batch |-> 0, raised |-> FALSE]

\* next(it): the next batch, StopIteration when the pass is over
next(it) ==
    IF it.pos < it.len
    THEN [it EXCEPT !.pos = @ + 1, !.batch = it.pos + 1]
    ELSE [it EXCEPT !.raised = TRUE]

\* the sampling without the except clause
next_source_no_restart(it) == next(it)

\* "sample source batch": next, and on StopIteration a new iterator and next
next_source(it) ==
    IF next(it).raised THEN next(iter(it.len)) ELSE next(it)

\* RMT.warmup from step i on: one source batch per step; a StopIteration of
\* the second next ends it
RECURSIVE warmup(_, _, _, _)
warmup(it, i, steps, batches) ==
    IF i = steps THEN [it |-> it, steps |-> i, batches |-> batches]
    ELSE LET nxt == next_source(it)
         IN  IF nxt.raised THEN [it |-> nxt, steps |-> i, batches |-> batches]
             ELSE warmup(nxt, i + 1, steps, Append(batches, nxt.batch))

NoArgs ==
    [dataset_name |-> "", arch_name |-> "", ckpt_path |-> << >>,
     warmup_steps |-> 0, src_len |-> 0]

NoCtor ==
    [args |-> NoArgs, did |-> "init", loaded |-> NoFile, state |-> << >>,
     steps |-> 0, batches |-> << >>]

InitRmt ==
    /\ ckpt_files = [f \in CkptPaths |-> NoFile]
    /\ ctor = NoCtor
    /\ src_loader_iter = iter(0)

\* the states a construction ends its warm-up with and saves stand for the
\* construction that computed them
Writer(args) == <<args.dataset_name, args.arch_name, args.ckpt_path[2]>>

\* RMT.__init__ from "warm up the mean-teacher framework" on, for one
\* construction in a process of its own
RmtInit(args) ==
    LET path == warmup_ckpt_path(args)
        file == ckpt_files[path]
        run  == warmup(iter(args.src_len), 0, args.warmup_steps, << >>)
    IN  IF args.warmup_steps = 0
        THEN /\ ctor' = [NoCtor EXCEPT !.args = args, !.did = "no_warmup"]
             /\ src_loader_iter' = iter(args.src_len)
             /\ UNCHANGED ckpt_files
        ELSE IF file.exists
        THEN /\ ctor' = [NoCtor EXCEPT !.args = args, !.did = "loaded",
                                        !.loaded = file, !.state = file.writer]
             /\ src_loader_iter' = iter(args.src_len)
             /\ UNCHANGED ckpt_files
        ELSE IF run.it.raised
        THEN /\ ctor' = [NoCtor EXCEPT !.args = args, !.did = "raised",
                                        !.steps = run.steps,
                                        !.batches = run.batches]
             /\ src_loader_iter' = run.it
             /\ UNCHANGED ckpt_files
        ELSE /\ ctor' = [NoCtor EXCEPT !.args = args, !.did = "warmed",
                                        !.state = Writer(args),
                                        !.steps = run.steps,
                                        !.batches = run.batches]
             /\ src_loader_iter' = run.it
             /\ ckpt_files' =
                  [ckpt_files EXCEPT ![path] =
                      [exists |-> TRUE,
                       writer |-> Writer(args),
                       writes |-> file.writes + 1]]

rmt_init ==
    /\ \E args \in RmtArgs : RmtInit(args)
    /\ UNCHANGED engine_vars
    /\ UNCHANGED filter_vars

\* RMT.forward_and_adapt, "sample source batch" (lambda_ce_src > 0), in an
\* engine whose construction has completed
rmt_source_batch ==
    /\ ctor.did \in {"no_warmup", "loaded", "warmed", "source_batch"}
    /\ ~src_loader_iter.raised
    /\ src_loader_iter' = next_source(src_loader_iter)
    /\ ctor' = [ctor EXCEPT !.did = "source_batch"]
    /\ UNCHANGED ckpt_files
    /\ UNCHANGED engine_vars
    /\ UNCHANGED filter_vars

\* what a model returns for a batch is a function of its parameters: the
\* logits of a model stand for the parameters they were computed from
NoOutput == << >>
NoRound == 0 - 1
Logits(p, g) == p[g]
LogitsT2(p) == Logits(p, "backbone_t2") + Logits(p, "classifier_t2")

(***************************************************************************)
(* Ours.__init__                                                           *)
(***************************************************************************)
InitFilter ==
    /\ entropy_t1 = << >>
    /\ entropy_ema_t2 = << >>
    /\ threshold = entropy_threshold
    /\ filter_ids = << >>

InitEngine ==
    /\ c = 0
    /\ calls = 0
    /\ priority_queues = init_pqs(NumClasses, max_size)
    /\ params = InitParams
    /\ grads = [k \in Groups |-> {}]
    /\ opt_state = InitOptState
    /\ stepped = NoSteps
    /\ prototypes = [k \in Classes |-> ZeroRow]
    /\ rows_read = {}
    /\ evictions = {}
    /\ t2_step_grads = {}
    /\ last_op = "init"
    /\ outputs = NoOutput
    /\ phases = << >>
    /\ last_round = NoRound

Init ==
    /\ InitEngine
    /\ \E cfg \in Configs :
          /\ contrast_mode = cfg.mode
          /\ mixed_precision = cfg.mixed
          /\ m_teacher_momentum = cfg.momentum
    /\ InitFilter
    /\ InitRmt

(***************************************************************************)
(* Ours.prototype_updates: insert the selected samples, run the eviction   *)
(* round when c is a multiple of 5, then compute the prototypes.  (The     *)
(* t-SNE plot at c % 20 is a diagnostic with no effect on the engine.)     *)
(***************************************************************************)
\* the round one step late
EvictionDueShifted(n) == n % EvictPeriod = 1

EvictionDue(n) == n % EvictPeriod = 0

\* the same with the prototypes computed before the queues are updated
prototype_updates_stale(pqs, num_classes, features, entropies, labels, n) ==
    LET st1 == update_pqs(pqs, max_size, features, entropies, labels)
        st2 == IF EvictionDue(n) THEN pop_min_from_pqs(st1, max_size, num_classes) ELSE st1
    IN  [pqs |-> st2.pqs, ev |-> st2.ev,
         prototypes |-> compute_prototypes(pqs, num_classes)]

prototype_updates(pqs, num_classes, features, entropies, labels, n) ==
    LET st1 == update_pqs(pqs, max_size, features, entropies, labels)
        st2 == IF EvictionDue(n) THEN pop_min_from_pqs(st1, max_size, num_classes) ELSE st1
    IN  [pqs |-> st2.pqs, ev |-> st2.ev,
         prototypes |-> compute_prototypes(st2.pqs, num_classes)]

\* Ours.loss_calculation up to the T2 loss terms, for batch x
SelectedIds(x) ==
    confidence_condition(EntropyT1(x), EntropyT2(x), entropy_threshold)[2]

LossCalculation(x) ==
    prototype_updates(priority_queues, NumClasses,
                      Select(backbone_t1(x), SelectedIds(x), 1),
                      Select(EntropyT1(x), SelectedIds(x), 1),
                      Select(LabelsT1(x), SelectedIds(x), 1), c)

\* what loss_calculation leaves behind whether or not the step completes; the
\* margin loss multiplies the features with the whole prototype matrix, so
\* every row is read, the rows of the batch's labels among them
StoreEffects(x) ==
    \E r \in {LossCalculation(x)} :
        /\ priority_queues' = r.pqs
        /\ evictions' = r.ev
        /\ prototypes' = r.prototypes
        /\ rows_read' = Range(LabelsT1(x)) \cup Classes
        /\ last_round' = IF EvictionDue(c) THEN c ELSE last_round

\* the phases of loss_calculation at counter value n, in the order of the code
LossPhases(n) ==
    <<"forward", "filter", "insert">>
        \o (IF EvictionDue(n) THEN <<"evict_round">> ELSE << >>)
        \o <<"prototypes", "losses">>

\* the ensemble prediction of loss_calculation: softmax(outputs_t1 + outputs_t2)
Prediction(p) == <<Logits(p, "model_t1") + LogitsT2(p)>>

EmaMerge(p) ==
    [p EXCEPT !["model_t1"] =
        ema_update_model(p["model_t1"], p["model_s"], m_teacher_momentum)]

(***************************************************************************)
(* Ours.forward_and_adapt                                                  *)
(***************************************************************************)
\* contrastive_loss raises ValueError for an unknown mode, after the
\* prototype store has been updated and before any backward pass
AdaptRaises(x) ==
    /\ contrast_mode \notin {"one", "all"}
    /\ StoreEffects(x)
    /\ last_op' = "adapt_error"
    /\ stepped' = NoSteps
    /\ outputs' = NoOutput
    /\ phases' = SubSeq(LossPhases(c), 1, Len(LossPhases(c)) - 1) \o <<"error">>
    /\ UNCHANGED <<c, params, grads, opt_state, t2_step_grads>>

\* the branch taken without mixed precision
AdaptFull(x) ==
    /\ contrast_mode \in {"one", "all"}
    /\ ~mixed_precision
    /\ StoreEffects(x)
    /\ LET g1 == backward(grads, "loss_stu")
           p1 == step(params, g1, "optimizer_bn")
           g2 == zero_grad(g1, "optimizer_bn")
           g3 == backward(g2, "loss_t2")
           p2 == step(p1, g3, "optimizer_backbone_t2")
           g4 == zero_grad(g3, "optimizer_backbone_t2")
       IN  /\ t2_step_grads' = g3["backbone_t2"]
           /\ grads' = g4
           /\ params' = EmaMerge(p2)
           /\ opt_state' = step_state(step_state(opt_state, g1, "optimizer_bn"),
                                       g3, "optimizer_backbone_t2")
           /\ stepped' = Called(Called(NoSteps, "optimizer_bn"),
                                "optimizer_backbone_t2")
    /\ phases' = LossPhases(c) \o <<"optimizer_bn", "optimizer_backbone_t2",
                                     "ema_merge", "counter">>
    /\ outputs' = Prediction(params)
    /\ c' = c + 1
    /\ last_op' = "adapt"

\* the mixed-precision branch: only self.optimizer is stepped
AdaptMixed(x) ==
    /\ contrast_mode \in {"one", "all"}
    /\ mixed_precision
    /\ StoreEffects(x)
    /\ LET g1 == backward(grads, "loss_stu")
           p1 == step(params, g1, "optimizer")
           g2 == zero_grad(g1, "optimizer")
       IN  /\ grads' = g2
           /\ params' = EmaMerge(p1)
           /\ opt_state' = step_state(opt_state, g1, "optimizer")
           /\ stepped' = Called(NoSteps, "optimizer")
    /\ phases' = LossPhases(c) \o <<"optimizer", "ema_merge", "counter">>
    /\ outputs' = Prediction(params)
    /\ c' = c + 1
    /\ last_op' = "adapt"
    /\ UNCHANGED t2_step_grads

Adapt(x) ==
    /\ calls' = calls + 1
    /\ \/ AdaptRaises(x)
       \/ AdaptFull(x)
       \/ AdaptMixed(x)
    /\ UNCHANGED <<contrast_mode, mixed_precision, m_teacher_momentum>>
    /\ UNCHANGED filter_vars
    /\ UNCHANGED rmt_vars

forward_and_adapt ==
    /\ calls < MaxSteps
    /\ \E x \in Batches : Adapt(x)

\* Ours.forward_sliding_window: a forward pass of self.model and T1 under
\* no_grad, returning the sum of their logits
forward_sliding_window ==
    /\ last_op' = "sliding"
    /\ outputs' = <<Logits(params, SlidingModel) + Logits(params, "model_t1")>>
    /\ UNCHANGED <<c, calls, priority_queues, params, grads, opt_state, stepped,
                   contrast_mode, mixed_precision, m_teacher_momentum,
                   prototypes, rows_read, evictions, t2_step_grads, phases,
                   last_round>>
    /\ UNCHANGED filter_vars
    /\ UNCHANGED rmt_vars

\* a reset that also starts the prototype store and the counter afresh
load_model_and_optimizer_and_store ==
    /\ params' = [k \in Groups |-> IF k \in models THEN model_states[k]
                                   ELSE params[k]]
    /\ opt_state' = [o \in Optimizers |-> IF o \in optimizers
                                          THEN optimizer_states[o]
                                          ELSE opt_state[o]]
    /\ last_op' = "reset"
    /\ outputs' = NoOutput
    /\ c' = 0
    /\ priority_queues' = init_pqs(NumClasses, max_size)
    /\ UNCHANGED <<calls, grads, stepped, contrast_mode,
                   mixed_precision, m_teacher_momentum, prototypes, rows_read,
                   evictions, t2_step_grads, phases, last_round>>
    /\ UNCHANGED filter_vars
    /\ UNCHANGED rmt_vars

\* Ours.load_model_and_optimizer: restores what the snapshot tracks
load_model_and_optimizer ==
    /\ params' = [k \in Groups |-> IF k \in models THEN model_states[k]
                                   ELSE params[k]]
    /\ opt_state' = [o \in Optimizers |-> IF o \in optimizers
                                          THEN optimizer_states[o]
                                          ELSE opt_state[o]]
    /\ last_op' = "reset"
    /\ outputs' = NoOutput
    /\ UNCHANGED <<c, calls, priority_queues, grads, stepped, contrast_mode,
                   mixed_precision, m_teacher_momentum, prototypes, rows_read,
                   evictions, t2_step_grads, phases, last_round>>
    /\ UNCHANGED filter_vars
    /\ UNCHANGED rmt_vars

Next ==
    \/ forward_and_adapt
    \/ forward_sliding_window
    \/ load_model_and_optimizer

Spec == Init /\ [][Next]_vars

(***************************************************************************)
(* The confidence filter on its own: Init draws two entropy vectors of one *)
(* length and a threshold, the action applies confidence_condition.        *)
(***************************************************************************)
Thresholds == {0, entropy_threshold, 10}

ScenarioT1 == <<1, 1, 1, 1, 9, 9, 9, 9>>
ScenarioT2 == <<2, 2, 2, 2, 2, 2, 2, 2>>
AlternatingT2 == <<2, 9, 2, 9, 2, 9, 2, 9>>

EntropyVectors == SeqsUpTo(EntropyValues, MaxVec)

FilterInputs ==
    {<<a, b>> \in EntropyVectors \X EntropyVectors : Len(a) = Len(b)}
        \cup {<<ScenarioT1, ScenarioT2>>, <<ScenarioT1, AlternatingT2>>,
              <<ScenarioT2, ScenarioT1>>}

InitF ==
    /\ InitEngine
    /\ contrast_mode = "all"
    /\ mixed_precision = FALSE
    /\ m_teacher_momentum = 1
    /\ \E inp \in FilterInputs :
          /\ entropy_t1 = inp[1]
          /\ entropy_ema_t2 = inp[2]
    /\ threshold \in Thresholds
    /\ filter_ids = << >>
    /\ InitRmt

confidence_filter ==
    /\ filter_ids = << >>
    /\ filter_ids' = confidence_condition(entropy_t1, entropy_ema_t2, threshold)
    /\ UNCHANGED <<entropy_t1, entropy_ema_t2, threshold>>
    /\ UNCHANGED engine_vars
    /\ UNCHANGED rmt_vars

NextF == confidence_filter

FilterSpec == InitF /\ [][NextF]_vars

(***************************************************************************)
(* The EMA merge on its own: Init draws the EMA model's parameter, the     *)
(* source model's parameter and the momentum, the action merges.           *)
(***************************************************************************)
Values == (0 - MaxValue) .. MaxValue

InitEma ==
    /\ InitFilter
    /\ InitRmt
    /\ c = 0
    /\ calls = 0
    /\ priority_queues = init_pqs(NumClasses, max_size)
    /\ \E t \in Values, s \in Values :
          params = [InitParams EXCEPT !["model_t1"] = t, !["model_s"] = s]
    /\ grads = [k \in Groups |-> {}]
    /\ opt_state = InitOptState
    /\ stepped = NoSteps
    /\ contrast_mode = "all"
    /\ mixed_precision = FALSE
    /\ m_teacher_momentum \in Momenta
    /\ prototypes = [k \in Classes |-> ZeroRow]
    /\ rows_read = {}
    /\ evictions = {}
    /\ t2_step_grads = {}
    /\ last_op = "init"
    /\ outputs = NoOutput
    /\ phases = << >>
    /\ last_round = NoRound

\* the ema_update_model call of forward_and_adapt, by itself
ema_merge ==
    /\ last_op = "init"
    /\ params' = EmaMerge(params)
    /\ last_op' = "ema"
    /\ UNCHANGED <<c, calls, priority_queues, grads, opt_state, stepped,
                   contrast_mode, mixed_precision, m_teacher_momentum,
                   prototypes, rows_read, evictions, t2_step_grads, outputs,
                   phases, last_round>>
    /\ UNCHANGED filter_vars
    /\ UNCHANGED rmt_vars

NextEma == ema_merge

EmaSpec == InitEma /\ [][NextEma]_vars

(***************************************************************************)
(* The engine over several eviction periods: a valid configuration, with   *)
(* and without mixed precision, adapt steps on a few batches (one selected *)
(* sample, two selected samples of different classes, one sample that is   *)
(* not selected) and episodic resets.                                      *)
(***************************************************************************)
LongBatches ==
    {<<[e1 |-> 5, e2 |-> 2, label |-> 0]>>,
     <<[e1 |-> 9, e2 |-> 2, label |-> 0],
       [e1 |-> 5, e2 |-> 2, label |-> NumClasses - 1]>>,
     <<[e1 |-> 1, e2 |-> 2, label |-> 0]>>}

InitLong ==
    /\ InitEngine
    /\ contrast_mode = "all"
    /\ mixed_precision \in BOOLEAN
    /\ m_teacher_momentum = MomentumHalf
    /\ InitFilter
    /\ InitRmt

long_adapt ==
    /\ calls < MaxLongSteps
    /\ \E x \in LongBatches : Adapt(x)

NextLong ==
    \/ long_adapt
    \/ load_model_and_optimizer

LongSpec == InitLong /\ [][NextLong]_vars

(***************************************************************************)
(* The warm-up checkpoint and the source iterator on their own: any        *)
(* sequence of constructions, each followed by any number of source        *)
(* batches drawn by adapt steps.                                           *)
(***************************************************************************)
InitWarmup ==
    /\ InitEngine
    /\ contrast_mode = "all"
    /\ mixed_precision = FALSE
    /\ m_teacher_momentum = MomentumDen
    /\ InitFilter
    /\ InitRmt

NextWarmup ==
    \/ rmt_init
    \/ rmt_source_batch

WarmupSpec == InitWarmup /\ [][NextWarmup]_vars

(***************************************************************************)
(* Properties of the engine (checked under Spec).                          *)
(***************************************************************************)

\* C1: every class queue holds at most K = 10 entries in every reachable
\* state, whatever the batches inserted and whenever the eviction round ran.
QueuesWithinCapacity ==
    \A k \in Classes : Len(priority_queues[k]) <= QueueBound

\* a queue is full right after a step that was no eviction round and in which
\* a batch pushed it over its size
QueueFullAfterCapacityEviction ==
    /\ last_op = "adapt"
    /\ \E k \in Classes : Len(priority_queues[k]) = QueueBound
    /\ \E ev \in evictions : ev.over

\* C2: every eviction, by capacity or by the periodic round, removes an entry
\* of the highest entropy of its queue: nothing left in the queue right after
\* it has a higher entropy than the entry removed.
EvictionRemovesWorst ==
    \A ev \in evictions : ev.worst_left <= ev.entropy

\* a capacity eviction from a queue that held entries of strictly lower
\* entropy than the one removed
EvictedFromMixedQueue ==
    \E ev \in evictions :
        /\ ev.over
        /\ ev.worst_left # NoEntropy
        /\ ev.worst_left < ev.entropy

\* C3: T1's parameters change only in an adapt step and only to the EMA merge
\* momentum*T1 + (1 - momentum)*S of the student's parameters; T1 holds no
\* gradient and belongs to no optimizer.
TeacherChangesOnlyByEma ==
    [][/\ params'["model_t1"] # params["model_t1"] =>
            /\ last_op' = "adapt"
            /\ params'["model_t1"] =
                  update_ema_variables(params["model_t1"], params'["model_s"],
                                       m_teacher_momentum)
       /\ grads'["model_t1"] = {}
       /\ \A o \in Optimizers : "model_t1" \notin OptimizerParams(o)]_vars

\* T1 has moved away from its initial parameters and an episodic reset has
\* since been made
TeacherMergedThenReset ==
    /\ last_op = "reset"
    /\ params["model_t1"] # InitParams["model_t1"]
    /\ params["model_t1"] # params["model_s"]

\* C4: the gradient buffer T2's optimizer step consumes holds the gradient of
\* T2's own loss only.
T2StepUsesOwnGradientOnly ==
    t2_step_grads \subseteq {"loss_t2"}

\* C5: every completed adapt step steps S's optimizer, T2's backbone
\* optimizer, T2's classifier optimizer and the optimizer holding the
\* projector once each.
EveryOptimizerStepsOnce ==
    last_op = "adapt" =>
        \A o \in {"optimizer_bn", "optimizer_backbone_t2",
                  "optimizer_classifier_t2", "optimizer_t2"} : stepped[o] = 1

\* C6: after load_model_and_optimizer the parameters of S, T1, T2 and the
\* projector and the state of every optimizer equal their values at
\* construction.
ResetRestoresSnapshot ==
    last_op = "reset" =>
        /\ \A g \in Groups : params[g] = InitParams[g]
        /\ opt_state = InitOptState

\* C7: an adapt call that fails with a configuration error leaves the
\* prototype queues, the model parameters and the step counter as they were.
FailedAdaptChangesNothing ==
    [][(calls' = calls + 1 /\ last_op' = "adapt_error") =>
          /\ priority_queues' = priority_queues
          /\ params' = params
          /\ c' = c]_vars

SlidingFrame ==
    /\ params' = params
    /\ opt_state' = opt_state
    /\ priority_queues' = priority_queues
    /\ c' = c

\* C12 as stated: forward_sliding_window returns the sum of the student's and
\* T1's logits and changes no parameter, optimizer state, queue or counter.
SlidingWindowReturnsStudentPlusT1 ==
    [][last_op' = "sliding" =>
          /\ outputs' = <<Logits(params, "model_s") + Logits(params, "model_t1")>>
          /\ SlidingFrame]_vars

\* C12 as amended: forward_sliding_window returns the sum of the logits of
\* self.model, the model the engine was constructed with, and of T1, and
\* changes no parameter, optimizer state, queue or counter.
SlidingWindowReturnsBasePlusT1 ==
    [][last_op' = "sliding" =>
          /\ outputs' = <<Logits(params, "model") + Logits(params, "model_t1")>>
          /\ SlidingFrame]_vars

\* sliding-window inference has run after the student has been adapted away
\* from the model the engine was constructed with
SlidingAfterStudentAdapted ==
    /\ last_op = "sliding"
    /\ c > 0
    /\ params["model_s"] # params["model"]
    /\ outputs # NoOutput

\* the places of a phase in a list of phases, and the phases in a given order
Places(seq, x) == {i \in DOMAIN seq : seq[i] = x}
Once(seq, x) == Cardinality(Places(seq, x)) = 1
InOrder(seq, order) ==
    \A i, j \in DOMAIN order :
        i < j => \A a \in Places(seq, order[i]), b \in Places(seq, order[j]) : a < b

ClaimedOrder ==
    <<"forward", "filter", "insert", "prototypes", "optimizer_bn",
      "optimizer_backbone_t2", "ema_merge", "counter">>

\* a forward_and_adapt call that completes
AdaptCompletes == calls' = calls + 1 /\ last_op' = "adapt"

\* what the phases of a completed step have read and written
AdaptDataFlow ==
    /\ outputs' = Prediction(params)
    /\ prototypes' = compute_prototypes(priority_queues', NumClasses)
    /\ params'["model_t1"] =
          update_ema_variables(params["model_t1"], params'["model_s"],
                               m_teacher_momentum)
    /\ c' = c + 1

Applied == filter_ids # << >>

\* C9: the four index sets are pairwise disjoint and their union is the full
\* batch index range, for any entropy vectors and threshold.
FilterPartitionsBatch ==
    Applied =>
        /\ \A i, j \in 1 .. 4 : i # j => filter_ids[i] \cap filter_ids[j] = {}
        /\ UNION {filter_ids[i] : i \in 1 .. 4} = Indices(entropy_t1)

\* the filter has been applied to a batch that puts a sample in each set
AllFourSetsInhabited ==
    /\ Applied
    /\ \A i \in 1 .. 4 : filter_ids[i] # {}

Scenario ==
    /\ Applied
    /\ entropy_t1 = ScenarioT1
    /\ entropy_ema_t2 = ScenarioT2
    /\ threshold = entropy_threshold

Lower(a, b) == IF a <= b THEN a ELSE b
Upper(a, b) == IF a >= b THEN a ELSE b

MergeEndpoints ==
    /\ m_teacher_momentum = MomentumDen =>
            params'["model_t1"] = params["model_t1"]
    /\ m_teacher_momentum = 0 => params'["model_t1"] = params["model_s"]

WrittenOnce ==
    /\ \A f \in CkptPaths : ckpt_files[f].writes <= 1
    /\ ctor.did = "warmed" =>
          /\ ckpt_files[warmup_ckpt_path(ctor.args)].writes = 1
          /\ ckpt_files[warmup_ckpt_path(ctor.args)].writer = Writer(ctor.args)
    /\ ctor.did = "raised" => ~ckpt_files[warmup_ckpt_path(ctor.args)].exists

\* C13 as stated: warm-up runs only when its checkpoint does not exist, the
\* checkpoint is written once, and a construction loads only a checkpoint
\* written by a construction of the same dataset and the same architecture.
CheckpointKeyedByDatasetAndArch ==
    /\ WrittenOnce
    /\ ctor.did = "loaded" =>
          /\ ctor.state = ctor.loaded.writer
          /\ ctor.loaded.writer[1] = ctor.args.dataset_name
          /\ ctor.loaded.writer[2] = ctor.args.arch_name

\* C13 as amended: warm-up runs only when its checkpoint does not exist, the
\* checkpoint is written once, and a construction loads only a checkpoint
\* written by a construction of the same dataset and, for domainnet126, of
\* the same second part of the model checkpoint's file name.
CheckpointKeyedByDatasetAndName ==
    /\ WrittenOnce
    /\ ctor.did = "loaded" =>
          /\ ctor.state = ctor.loaded.writer
          /\ ctor.loaded.writer[1] = ctor.args.dataset_name
          /\ ctor.args.dataset_name = "domainnet126" =>
                ctor.loaded.writer[3] = ctor.args.ckpt_path[2]

\* a construction has loaded the checkpoint that a construction of another
\* architecture wrote
LoadedCheckpointOfOtherArch ==
    /\ ctor.did = "loaded"
    /\ ctor.loaded.writer[2] # ctor.args.arch_name

\* C14: with a non-empty source loader no request for a source batch raises:
\* warm-up completes warmup_steps steps on the batches 1, 2, .., src_len, 1,
\* .., and an adapt step that finds the iterator exhausted gets batch 1 of a
\* new pass.
SourceIteratorRestarts ==
    [][/\ (ctor'.did \in {"warmed", "raised"} /\ ctor'.args.src_len > 0) =>
             /\ ctor'.did = "warmed"
             /\ ctor'.steps = ctor'.args.warmup_steps
             /\ Len(ctor'.batches) = ctor'.steps
             /\ \A i \in 1 .. ctor'.steps :
                   ctor'.batches[i] = ((i - 1) % ctor'.args.src_len) + 1
       /\ (ctor'.did = "source_batch" /\ src_loader_iter' # src_loader_iter
              /\ ctor'.args.src_len > 0) =>
             /\ ~src_loader_iter'.raised
             /\ src_loader_iter'.batch =
                   IF src_loader_iter.pos = src_loader_iter.len THEN 1
                   ELSE src_loader_iter.pos + 1]_vars

\* a warm-up of more steps than the source loader has batches has completed
WarmupWrappedAround ==
    /\ ctor.did = "warmed"
    /\ ctor.args.warmup_steps > ctor.args.src_len
    /\ Len(ctor.batches) = ctor.args.warmup_steps

(***************************************************************************)
(* Properties of the eviction schedule (checked under LongSpec).           *)
(***************************************************************************)
\* the queues right after the insertions of batch x
Inserted(x) ==
    update_pqs(priority_queues, max_size,
               Select(backbone_t1(x), SelectedIds(x), 1),
               Select(EntropyT1(x), SelectedIds(x), 1),
               Select(LabelsT1(x), SelectedIds(x), 1)).pqs

\* C16: a completed adapt step runs the eviction round exactly when its
\* counter c is a multiple of 5, after its insertions and before its
\* prototypes are computed; the round takes one entry from every queue that
\* holds one, a step without a round takes none, and a round comes 5
\* completed steps after the round before it.
EvictionRoundEveryFiveSteps ==
    [][AdaptCompletes =>
          /\ (Places(phases', "evict_round") # {}) <=> (c % 5 = 0)
          /\ InOrder(phases', <<"insert", "evict_round", "prototypes">>)
          /\ \E x \in LongBatches :
                \A k \in Classes :
                    Len(priority_queues'[k]) =
                        IF c % 5 = 0 /\ Len(Inserted(x)[k]) > 0
                        THEN Len(Inserted(x)[k]) - 1
                        ELSE Len(Inserted(x)[k])
          /\ prototypes' = compute_prototypes(priority_queues', NumClasses)
          /\ IF c % 5 = 0
             THEN /\ last_round' = c
                  /\ last_round # NoRound => c - last_round = 5
             ELSE last_round' = last_round]_vars

\* the third eviction round has run, on queues that all held an entry, and
\* has left entries behind
ThirdRoundRan ==
    /\ last_op = "adapt"
    /\ c = 11
    /\ last_round = 10
    /\ \A k \in Classes : Len(priority_queues[k]) > 0

\* C17: load_model_and_optimizer leaves every class queue, the prototypes
\* and the counter c as they were, so the next episode's eviction schedule
\* goes on from the previous episode's.
ResetLeavesStoreAndCounter ==
    [][(last_op' = "reset" /\ outputs' = NoOutput) =>
          /\ priority_queues' = priority_queues
          /\ prototypes' = prototypes
          /\ c' = c
          /\ last_round' = last_round]_vars

\* a reset has been made in the middle of an eviction period, with entries
\* queued
ResetWithinPeriod ==
    /\ last_op = "reset"
    /\ c % 5 = 3
    /\ last_round = 5
    /\ \E k \in Classes : Len(priority_queues[k]) > 1

====
